---- MODULE Spec2Model ----
(***************************************************************************)
(* Model of the forecast scheduling and simulation engine of               *)
(* custom_components/solar_forecast_ml.                                    *)
(*                                                                         *)
(* Part 1: ForecastCoordinator (forecast_coordinator.py) with the sensors  *)
(* that read its result (forecast_sensor_base.py, sensor.py).  One tick is *)
(* _async_update_data; every await of a training or prediction callable is *)
(* a dispatch step followed by a return or a raise step.  What a callable  *)
(* does inside (weather fetch, model inference, simulation) is an input of *)
(* the coordinator: it either returns a complete ForecastData or raises.   *)
(* Time is counted in minutes.                                             *)
(*                                                                         *)
(* Part 2: forecast_battery.forecast_battery_capacity, the hourly battery  *)
(* simulation, with energies in Wh as integers.                            *)
(*                                                                         *)
(* Part 3: forecast_grid.forecast_grid, the hourly grid exchange.          *)
(*                                                                         *)
(* Part 4: forecast_data.ForecastData, the nearest-point lookup and the    *)
(* aggregation by interval, one loop pass per step.                        *)
(*                                                                         *)
(* Part 5: the hours of one forecast horizon: the prediction window of the *)
(* coordinator, the hourly timestamps generate_predictions makes for it    *)
(* and the hours a simulation started at the same now steps through.  Time *)
(* is counted in seconds here, the window being shifted by one second.     *)
(*                                                                         *)
(* Each part has its own specification; the variables of the other parts   *)
(* stay at rest in it.                                                     *)
(***************************************************************************)
EXTENDS Integers, Sequences, FiniteSets, TLC

\* ---------------------------------------------------------------- bounds
\* ticks of the coordinator, points of a stored series, days of a simulation
\* run, training runs that raise, points of a series that is looked up or
\* aggregated
MaxTicks == 3
SeriesLen == 2
MaxDays == 1
MaxTrainFailures == 1
MaxPoints == 3

\* ------------------------------------------------------------- constants
\* Optional values: None is the empty tuple, a present value v is <<v>>
None == <<>>
Some(v) == <<v>>
Val(o) == o[1]

FORECAST_DATA_PV_POWER == "forecast_data_pv_power"
FORECAST_DATA_POWER_CONSUMPTION == "forecast_data_power_consumption"
FORECAST_DATA_BATTERY == "forecast_data_battery"
FORECAST_DATA_GRID == "forecast_data_grid"

SOLAR_TRAINING == "Solar training"
CONSUMPTION_TRAINING == "Consumption training"

\* timedelta(hours=24), timedelta(minutes=15), timedelta(minutes=1) in minutes
TRAINING_INTERVAL == 24 * 60
SLOW_UPDATE_INTERVAL == 15
FAST_UPDATE_INTERVAL == 1

\* minutes between two ticks: the host's period (update_interval of 1 minute)
\* or a longer pause
TickGaps == {1, 15}

\* mtime of a model file at start-up: no file, or written 23 h 59 min ago
InitialMtimes == {None, Some(0 - 1439)}

VARIABLES
    now,                 \* now of the current tick (minutes)
    ticks,               \* number of ticks started
    model_mtime,         \* training task name -> mtime of the model file or None
    forecasts,           \* self.forecasts: forecast key -> ForecastData or None (absent)
    last_run,            \* PredictionTask.last_run per forecast key
    executed_forecasts,  \* local of _async_update_data
    pc,                  \* position inside _async_update_data
    idx,                 \* index of the task the current loop is at
    inflight,            \* callables dispatched and not yet returned or raised
    args,                \* upstream series handed to the prediction in flight
    data,                \* coordinator.data: what the last completed tick returned
    sensors,             \* sensor id -> (_state, _attributes) or None
    events,              \* log of this tick: <<task, "dispatch" | "ok" | "raise">>
    carried,             \* keys whose latest attempt, in an earlier tick, raised
    train_failures,      \* number of training runs that raised so far
    meteo_records,       \* what dal.collect_meteo_data returned to the solar
                         \* prediction of this tick: "none" (not called),
                         \* "empty" or "records"
    train_rows           \* rows the latest training of this tick got to train
                         \* on, None when no training was called

coordVars == <<now, ticks, model_mtime, forecasts, last_run, executed_forecasts,
               pc, idx, inflight, args, data, sensors, events, carried,
               train_failures, meteo_records, train_rows>>

\* state of one run of forecast_battery.forecast_battery_capacity
VARIABLES
    b_pc,             \* "idle", "sim" (inside the while loop), "done" (returned)
    days,             \* argument days
    current_capacity, \* measured battery capacity in percent
    max_energy,       \* maximum battery energy (Wh)
    min_soc,          \* state of the pv_batt_min_soc entity (percent)
    max_soc,          \* state of the pv_batt_max_soc entity (percent)
    batt_min_energy,  \* max_energy * min_soc / 100
    batt_max_energy,  \* max_energy * max_soc / 100
    current_energy,   \* [min, med, max]: energy carried to the next hour (Wh)
    sim_step,         \* hours between start_sim and sim_time
    solar_power,      \* solar_hourly.get(sim_time, 0.0) of the last step
    consumption,      \* cons_by_hour.get(sim_time, zeros) of the last step
    results_len,      \* len(forecast_results)
    results_head,     \* forecast_results[0]
    results_last,     \* forecast_results[-1]
    pv_batt_max_power, \* Configuration.pv_batt_max_power (W)
    b_now,            \* now of the run (minutes)
    start_sim,        \* first simulated hour (minutes)
    solar_entry,      \* what solar_hourly holds for sim_time, None when absent
    cons_entry,       \* what cons_by_hour holds for sim_time, None when absent
    no_load,          \* history: every hour so far had solar 0 and consumption 0
    cons_ordered      \* history: every hour so far had consumption min <= med <= max

battVars == <<b_pc, days, current_capacity, max_energy, min_soc, max_soc,
              batt_min_energy, batt_max_energy, current_energy, sim_step,
              solar_power, consumption, results_len, results_head, results_last,
              pv_batt_max_power, b_now, start_sim, solar_entry, cons_entry,
              no_load, cons_ordered>>

\* state of one run of forecast_grid.forecast_grid
VARIABLES
    g_pc,               \* "idle", "sim" (inside the while loop), "done" (returned)
    g_days,             \* argument days
    g_now,              \* now of the run (minutes)
    g_start_sim,        \* first simulated hour (minutes)
    g_step,             \* hours between start_sim and sim_time
    batt_min_threshold, \* percent
    batt_max_threshold, \* percent
    g_solar_entry,      \* what solar_hourly holds for sim_time, None when absent
    g_cons_entry,       \* what cons_by_hour holds for sim_time, None when absent
    g_batt_entry,       \* what batt_by_hour holds for sim_time, None when absent
    grid_len,           \* len(grid_forecast)
    grid_last           \* grid_forecast[-1]

gridVars == <<g_pc, g_days, g_now, g_start_sim, g_step, batt_min_threshold,
              batt_max_threshold, g_solar_entry, g_cons_entry, g_batt_entry,
              grid_len, grid_last>>

\* state of one call of ForecastData.get_nearest_forecast_record or
\* ForecastData.aggregate_by_interval
VARIABLES
    s_pc,               \* "idle", "nearest", "nearest_done", "sensor_done",
                        \* "sensor_raised", "agg", "agg_done", "agg_raised"
    forecast,           \* self.forecast: the points of the series
    s_now,              \* now of the lookup (minutes)
    n_idx,              \* index of the point the lookup loop is at
    last_past_point,    \* local of the lookup, None or the point
    nearest_result,     \* what the lookup returned
    aggregation_fn,     \* argument of aggregate_by_interval
    post_process_fn,    \* argument, None or the name of a function
    interval,           \* argument (minutes)
    a_idx,              \* index of the point the aggregation loop is at
    interval_start,     \* local, None or the start of the current interval
    current_interval,   \* local: channel -> sum, None for a channel not in the dict
    points_in_interval, \* local
    current_members,    \* history: indices of the points of the current interval
    result,             \* local: the aggregated points so far
    agg_returned,       \* what the call returned, None when it has not returned
    s_state             \* _state of the current-value sensor fed by the lookup

seriesVars == <<s_pc, forecast, s_now, n_idx, last_past_point, nearest_result,
                aggregation_fn, post_process_fn, interval, a_idx, interval_start,
                current_interval, points_in_interval, current_members, result,
                agg_returned, s_state>>

\* --------------------------------------------------------- task tables
training_tasks == <<SOLAR_TRAINING, CONSUMPTION_TRAINING>>

prediction_tasks_reordered ==
    <<FORECAST_DATA_BATTERY, FORECAST_DATA_PV_POWER,
      FORECAST_DATA_POWER_CONSUMPTION, FORECAST_DATA_GRID>>

prediction_tasks ==
    <<FORECAST_DATA_PV_POWER, FORECAST_DATA_POWER_CONSUMPTION,
      FORECAST_DATA_BATTERY, FORECAST_DATA_GRID>>

ForecastKeys ==
    {FORECAST_DATA_PV_POWER, FORECAST_DATA_POWER_CONSUMPTION,
     FORECAST_DATA_BATTERY, FORECAST_DATA_GRID}

TrainingNames == {SOLAR_TRAINING, CONSUMPTION_TRAINING}

update_interval(key) ==
    IF key \in {FORECAST_DATA_PV_POWER, FORECAST_DATA_POWER_CONSUMPTION}
    THEN SLOW_UPDATE_INTERVAL
    ELSE FAST_UPDATE_INTERVAL

\* the keys a prediction callable reads with self.forecasts.get(...)
upstream(key) ==
    CASE key = FORECAST_DATA_BATTERY ->
            {FORECAST_DATA_PV_POWER, FORECAST_DATA_POWER_CONSUMPTION}
      [] key = FORECAST_DATA_GRID ->
            {FORECAST_DATA_PV_POWER, FORECAST_DATA_POWER_CONSUMPTION,
             FORECAST_DATA_BATTERY}
      [] OTHER -> {}

EmptyMap == [k \in ForecastKeys |-> None]

Keys(m) == {k \in ForecastKeys : m[k] # None}

\* a ForecastData instance: the points of one run of one kind, each point
\* tagged with the run (the tick's now) that computed it
ForecastData(key, run) == [key |-> key, points |-> [i \in 1..SeriesLen |-> run]]

\* ------------------------------------------------- TrainingTask, PredictionTask
needs_training_from_24h_on(mtime, t) ==
    IF mtime = None THEN TRUE
    ELSE (t - Val(mtime)) >= TRAINING_INTERVAL

needs_training(mtime, t) ==
    IF mtime = None THEN TRUE
    ELSE (t - Val(mtime)) > TRAINING_INTERVAL

needs_update_strictly_later(lr, key, t) ==
    IF lr[key] = None THEN TRUE
    ELSE (t - Val(lr[key])) > update_interval(key)

needs_update(lr, key, t) ==
    IF lr[key] = None THEN TRUE
    ELSE (t - Val(lr[key])) >= update_interval(key)

mark_updated_left_out(lr, key, t) == lr

mark_updated(lr, key, t) == [lr EXCEPT ![key] = Some(t)]

\* rows a training gets to train on: the merged rows of the solar training,
\* the hourly rows of the consumption training
TrainRowCounts == {9, 10}

\* forecast_solar.py lines 63-64, forecast_consumption.py lines 31-32: a
\* training on fewer than 10 rows raises
can_train_from_9_rows(rows) == rows >= 9

can_train(rows) == ~ (rows < 10)

\* forecast_solar.py lines 90-92: the weather records the solar prediction
\* gets for its window; the other predictions do not fetch any
MeteoPayloads(key, cur) ==
    IF key = FORECAST_DATA_PV_POWER THEN {"empty", "records"} ELSE {cur}

\* what a prediction needs in order to return a series:
\* forecast_solar.py lines 93-101, weather records (line 94 raises without)
\* and the persisted solar model (joblib.load raises without);
\* forecast_consumption.py line 132, the persisted consumption models
can_predict_without_model(key, mtimes, meteo) ==
    key = FORECAST_DATA_PV_POWER => meteo = "records"

can_predict_without_records(key, mtimes, meteo) ==
    CASE key = FORECAST_DATA_PV_POWER -> mtimes[SOLAR_TRAINING] # None
      [] key = FORECAST_DATA_POWER_CONSUMPTION -> mtimes[CONSUMPTION_TRAINING] # None
      [] OTHER -> TRUE

can_predict(key, mtimes, meteo) ==
    CASE key = FORECAST_DATA_PV_POWER ->
            meteo = "records" /\ mtimes[SOLAR_TRAINING] # None
      [] key = FORECAST_DATA_POWER_CONSUMPTION -> mtimes[CONSUMPTION_TRAINING] # None
      [] OTHER -> TRUE

\* lines 198-199: the result replaces the entry of its key as a whole
StoreIncremental(m, key, fd) ==
    IF m[key] = None THEN [m EXCEPT ![key] = Some(fd)]
    ELSE [m EXCEPT ![key] =
             Some([Val(@) EXCEPT !.points = [Val(m[key]).points EXCEPT ![1] = fd.points[1]]])]

StoreResult(m, key, fd) == [m EXCEPT ![key] = Some(fd)]

\* line 203: len(self.forecasts) != len(self.prediction_tasks)
EscalatesAlways(m) == TRUE

EscalatesWhenEmpty(m) == Keys(m) = {}

EscalatesNever(m) == FALSE

EscalatesNotReady(m) == Cardinality(Keys(m)) # Len(prediction_tasks)

\* ------------------------------------------------------------- sensors
SensorIds ==
    {"pv_solar_panels_power_forecast", "pv_power_consumption_forecast",
     "pv_battery_capacity_forecast", "pv_grid_power_forecast",
     "pv_solar_panels_energy_forecast_today", "pv_grid_energy_forecast_today",
     "pv_solar_panels_forecast_energy_rest_of_today",
     "pv_grid_energy_forecast_rest_of_today"}

_get_forecast_data_key(id) ==
    CASE id \in {"pv_solar_panels_power_forecast",
                 "pv_solar_panels_energy_forecast_today",
                 "pv_solar_panels_forecast_energy_rest_of_today"} ->
            FORECAST_DATA_PV_POWER
      [] id = "pv_power_consumption_forecast" -> FORECAST_DATA_POWER_CONSUMPTION
      [] id = "pv_battery_capacity_forecast" -> FORECAST_DATA_BATTERY
      [] OTHER -> FORECAST_DATA_GRID

\* the state and attributes a sensor derives from a series: every sensor
\* evaluates the series against the wall clock of the update
_get_state_and_attr_from_forecast(id, fd, t) == [id |-> id, forecast |-> fd, at |-> t]

_handle_update_resetting(cur, id, d, t) ==
    IF d[_get_forecast_data_key(id)] # None
    THEN Some(_get_state_and_attr_from_forecast(id, Val(d[_get_forecast_data_key(id)]), t))
    ELSE None

_handle_update(cur, id, d, t) ==
    IF d[_get_forecast_data_key(id)] # None
    THEN Some(_get_state_and_attr_from_forecast(id, Val(d[_get_forecast_data_key(id)]), t))
    ELSE cur

\* ---------------------------------------------------------------- Init
CoordInit ==
    /\ now = 0
    /\ ticks = 0
    /\ model_mtime \in [TrainingNames -> InitialMtimes]
    /\ forecasts = EmptyMap
    /\ last_run = EmptyMap
    /\ executed_forecasts = EmptyMap
    /\ pc = "constructed"
    /\ idx = 0
    /\ inflight = {}
    /\ args = EmptyMap
    /\ data = EmptyMap
    /\ sensors = [s \in SensorIds |-> None]
    /\ events = <<>>
    /\ carried = {}
    /\ train_failures = 0
    /\ meteo_records = "none"
    /\ train_rows = None

\* no simulation run is going on
BattIdle ==
    /\ b_pc = "idle"
    /\ days = 0
    /\ current_capacity = 0
    /\ max_energy = 0
    /\ min_soc = 0
    /\ max_soc = 0
    /\ batt_min_energy = 0
    /\ batt_max_energy = 0
    /\ current_energy = [min |-> 0, med |-> 0, max |-> 0]
    /\ sim_step = 0
    /\ solar_power = 0
    /\ consumption = [min |-> 0, med |-> 0, max |-> 0]
    /\ results_len = 0
    /\ results_head = None
    /\ results_last = None
    /\ pv_batt_max_power = 0
    /\ b_now = 0
    /\ start_sim = 0
    /\ solar_entry = None
    /\ cons_entry = None
    /\ no_load = TRUE
    /\ cons_ordered = TRUE

\* no grid run is going on
GridIdle ==
    /\ g_pc = "idle"
    /\ g_days = 0
    /\ g_now = 0
    /\ g_start_sim = 0
    /\ g_step = 0
    /\ batt_min_threshold = 0
    /\ batt_max_threshold = 0
    /\ g_solar_entry = None
    /\ g_cons_entry = None
    /\ g_batt_entry = None
    /\ grid_len = 0
    /\ grid_last = None

\* an empty dict of channel sums
NoSums == [min |-> None, med |-> None, max |-> None]

\* no call on a series is going on
VARIABLES
    h_pc,               \* "idle", "predict", "predicted", "simulate", "done"
    h_now,              \* now of the tick and of the simulation (seconds)
    prediction_from,    \* the window _get_prediction_window returned
    prediction_to,
    current_date,       \* local of generate_predictions
    timestamps,         \* the times of the consumption points made so far
    h_start_sim,        \* locals of the simulation
    h_end_sim,
    h_sim_time,
    defaulted           \* history: the hours whose consumption lookup missed

horizonVars == <<h_pc, h_now, prediction_from, prediction_to, current_date,
                 timestamps, h_start_sim, h_end_sim, h_sim_time, defaulted>>

SeriesIdle ==
    /\ s_pc = "idle"
    /\ forecast = <<>>
    /\ s_now = 0
    /\ n_idx = 0
    /\ last_past_point = None
    /\ nearest_result = None
    /\ aggregation_fn = "sum"
    /\ post_process_fn = None
    /\ interval = 0
    /\ a_idx = 0
    /\ interval_start = None
    /\ current_interval = NoSums
    /\ points_in_interval = 0
    /\ current_members = {}
    /\ result = <<>>
    /\ agg_returned = None
    /\ s_state = None

HorizonIdle ==
    /\ h_pc = "idle"
    /\ h_now = 0
    /\ prediction_from = 0
    /\ prediction_to = 0
    /\ current_date = 0
    /\ timestamps = {}
    /\ h_start_sim = 0
    /\ h_end_sim = 0
    /\ h_sim_time = 0
    /\ defaulted = {}

Log(task, what) == Append(events, <<task, what>>)

\* lines 178-179: a tick starts; ticks never overlap.  After a tick that
\* raised ConfigEntryNotReady the host either calls the same coordinator
\* again at the next period or sets the entry up anew (SetupRetry)
TickStart ==
    /\ pc \in {"constructed", "returned", "not_ready"}
    /\ ticks < MaxTicks
    /\ \E gap \in TickGaps : now' = now + gap
    /\ ticks' = ticks + 1
    /\ executed_forecasts' = EmptyMap
    /\ pc' = "training"
    /\ idx' = 1
    /\ events' = <<>>
    /\ carried' = {k \in ForecastKeys :
                      \/ \E i \in 1..Len(events) : events[i] = <<k, "raise">>
                      \/ /\ k \in carried
                         /\ ~ \E i \in 1..Len(events) : events[i] = <<k, "ok">>}
    /\ meteo_records' = "none"
    /\ train_rows' = None
    /\ UNCHANGED <<model_mtime, forecasts, last_run, inflight, args, data, sensors>>
    /\ UNCHANGED <<train_failures, battVars, gridVars, seriesVars, horizonVars>>

\* lines 182-183: the training task is not due
TrainSkip ==
    /\ pc = "training"
    /\ idx <= Len(training_tasks)
    /\ ~ needs_training(model_mtime[training_tasks[idx]], now)
    /\ idx' = idx + 1
    /\ UNCHANGED <<now, ticks, model_mtime, forecasts, last_run, executed_forecasts,
                   pc, inflight, args, data, sensors, events, carried>>
    /\ UNCHANGED <<train_failures, meteo_records, train_rows, battVars, gridVars, seriesVars, horizonVars>>

\* lines 183-187: await task.train_callable(...)
TrainDispatch ==
    /\ pc = "training"
    /\ idx <= Len(training_tasks)
    /\ needs_training(model_mtime[training_tasks[idx]], now)
    /\ inflight' = inflight \cup {training_tasks[idx]}
    /\ \E n \in TrainRowCounts :
          /\ (can_train(n) \/ train_failures < MaxTrainFailures)
          /\ train_rows' = Some(n)
    /\ pc' = "await_train"
    /\ events' = Log(training_tasks[idx], "dispatch")
    /\ UNCHANGED <<now, ticks, model_mtime, forecasts, last_run, executed_forecasts,
                   idx, args, data, sensors, carried>>
    /\ UNCHANGED <<train_failures, meteo_records, battVars, gridVars, seriesVars, horizonVars>>

\* line 188: the training returned; the model file was written during the
\* tick, so its mtime is taken to be the tick's now
TrainReturn ==
    /\ pc = "await_train"
    /\ training_tasks[idx] \in inflight
    /\ can_train(Val(train_rows))
    /\ inflight' = inflight \ {training_tasks[idx]}
    /\ model_mtime' = [model_mtime EXCEPT ![training_tasks[idx]] = Some(now)]
    /\ events' = Log(training_tasks[idx], "ok")
    /\ pc' = "training"
    /\ idx' = idx + 1
    /\ UNCHANGED <<now, ticks, forecasts, last_run, executed_forecasts, args, data,
                   sensors, carried>>
    /\ UNCHANGED <<train_failures, meteo_records, train_rows, battVars, gridVars, seriesVars, horizonVars>>

\* lines 189-190: the training raised; logged, the model file is as before
TrainRaise ==
    /\ pc = "await_train"
    /\ training_tasks[idx] \in inflight
    /\ train_failures < MaxTrainFailures
    /\ inflight' = inflight \ {training_tasks[idx]}
    /\ events' = Log(training_tasks[idx], "raise")
    /\ pc' = "training"
    /\ idx' = idx + 1
    /\ UNCHANGED <<now, ticks, model_mtime, forecasts, last_run, executed_forecasts,
                   args, data, sensors, carried>>
    /\ train_failures' = train_failures + 1
    /\ UNCHANGED <<meteo_records, train_rows, battVars, gridVars, seriesVars, horizonVars>>

\* line 193: the training loop is over, the prediction loop begins
TrainDone ==
    /\ pc = "training"
    /\ idx > Len(training_tasks)
    /\ pc' = "predicting"
    /\ idx' = 1
    /\ UNCHANGED <<now, ticks, model_mtime, forecasts, last_run, executed_forecasts,
                   inflight, args, data, sensors, events, carried>>
    /\ UNCHANGED <<train_failures, meteo_records, train_rows, battVars, gridVars, seriesVars, horizonVars>>

\* lines 193-194: the prediction task is not due
PredictSkip ==
    /\ pc = "predicting"
    /\ idx <= Len(prediction_tasks)
    /\ ~ needs_update(last_run, prediction_tasks[idx], now)
    /\ idx' = idx + 1
    /\ UNCHANGED <<now, ticks, model_mtime, forecasts, last_run, executed_forecasts,
                   pc, inflight, args, data, sensors, events, carried>>
    /\ UNCHANGED <<train_failures, meteo_records, train_rows, battVars, gridVars, seriesVars, horizonVars>>

\* a dispatch that hands over the series the last tick returned
\* (coordinator.data) instead of reading self.forecasts
PredictDispatchPublished ==
    /\ pc = "predicting"
    /\ idx <= Len(prediction_tasks)
    /\ needs_update(last_run, prediction_tasks[idx], now)
    /\ inflight' = inflight \cup {prediction_tasks[idx]}
    /\ args' = [k \in ForecastKeys |->
                  IF k \in upstream(prediction_tasks[idx]) THEN data[k] ELSE None]
    /\ meteo_records' \in MeteoPayloads(prediction_tasks[idx], meteo_records)
    /\ pc' = "await_predict"
    /\ events' = Log(prediction_tasks[idx], "dispatch")
    /\ UNCHANGED <<now, ticks, model_mtime, forecasts, last_run, executed_forecasts,
                   idx, data, sensors, carried>>
    /\ UNCHANGED <<train_failures, train_rows, battVars, gridVars, seriesVars, horizonVars>>

\* lines 194-196: await task.predict_callable(); the callable reads its
\* upstream series from self.forecasts when it is called (lines 157-158, 169-171)
PredictDispatch ==
    /\ pc = "predicting"
    /\ idx <= Len(prediction_tasks)
    /\ needs_update(last_run, prediction_tasks[idx], now)
    /\ inflight' = inflight \cup {prediction_tasks[idx]}
    /\ args' = [k \in ForecastKeys |->
                  IF k \in upstream(prediction_tasks[idx]) THEN forecasts[k] ELSE None]
    /\ meteo_records' \in MeteoPayloads(prediction_tasks[idx], meteo_records)
    /\ pc' = "await_predict"
    /\ events' = Log(prediction_tasks[idx], "dispatch")
    /\ UNCHANGED <<now, ticks, model_mtime, forecasts, last_run, executed_forecasts,
                   idx, data, sensors, carried>>
    /\ UNCHANGED <<train_failures, train_rows, battVars, gridVars, seriesVars, horizonVars>>

\* lines 196-201: the callable returned a ForecastData
PredictReturn ==
    /\ pc = "await_predict"
    /\ prediction_tasks[idx] \in inflight
    /\ can_predict(prediction_tasks[idx], model_mtime, meteo_records)
    /\ LET key == prediction_tasks[idx]
           forecast_data == ForecastData(key, now)
       IN /\ forecasts' = StoreResult(forecasts, key, forecast_data)
          /\ executed_forecasts' = StoreResult(executed_forecasts, key, forecast_data)
          /\ last_run' = mark_updated(last_run, key, now)
          /\ inflight' = inflight \ {key}
          /\ events' = Log(key, "ok")
    /\ args' = EmptyMap
    /\ pc' = "predicting"
    /\ idx' = idx + 1
    /\ UNCHANGED <<now, ticks, model_mtime, data, sensors, carried>>
    /\ UNCHANGED <<train_failures, meteo_records, train_rows, battVars, gridVars, seriesVars, horizonVars>>

\* variants of the except branch (lines 202-210) that a slip would produce
PredictRaiseDropsEntry ==
    /\ pc = "await_predict"
    /\ prediction_tasks[idx] \in inflight
    /\ inflight' = inflight \ {prediction_tasks[idx]}
    /\ events' = Log(prediction_tasks[idx], "raise")
    /\ args' = EmptyMap
    /\ forecasts' = [forecasts EXCEPT ![prediction_tasks[idx]] = None]
    /\ IF EscalatesNotReady(forecasts)
       THEN pc' = "not_ready" /\ idx' = idx
       ELSE pc' = "predicting" /\ idx' = idx + 1
    /\ UNCHANGED <<now, ticks, model_mtime, last_run, executed_forecasts,
                   data, sensors, carried>>
    /\ UNCHANGED <<train_failures, meteo_records, train_rows, battVars, gridVars, seriesVars, horizonVars>>

PredictRaiseStamping ==
    /\ pc = "await_predict"
    /\ prediction_tasks[idx] \in inflight
    /\ inflight' = inflight \ {prediction_tasks[idx]}
    /\ events' = Log(prediction_tasks[idx], "raise")
    /\ args' = EmptyMap
    /\ last_run' = mark_updated(last_run, prediction_tasks[idx], now)
    /\ IF EscalatesNotReady(forecasts)
       THEN pc' = "not_ready" /\ idx' = idx
       ELSE pc' = "predicting" /\ idx' = idx + 1
    /\ UNCHANGED <<now, ticks, model_mtime, forecasts, executed_forecasts,
                   data, sensors, carried>>
    /\ UNCHANGED <<train_failures, meteo_records, train_rows, battVars, gridVars, seriesVars, horizonVars>>

PredictRaiseBreaking ==
    /\ pc = "await_predict"
    /\ prediction_tasks[idx] \in inflight
    /\ inflight' = inflight \ {prediction_tasks[idx]}
    /\ events' = Log(prediction_tasks[idx], "raise")
    /\ args' = EmptyMap
    /\ IF EscalatesNotReady(forecasts)
       THEN pc' = "not_ready" /\ idx' = idx
       ELSE pc' = "predicting" /\ idx' = Len(prediction_tasks) + 1
    /\ UNCHANGED <<now, ticks, model_mtime, forecasts, last_run, executed_forecasts,
                   data, sensors, carried>>
    /\ UNCHANGED <<train_failures, meteo_records, train_rows, battVars, gridVars, seriesVars, horizonVars>>

\* lines 202-210: the callable raised
PredictRaise ==
    /\ pc = "await_predict"
    /\ prediction_tasks[idx] \in inflight
    /\ inflight' = inflight \ {prediction_tasks[idx]}
    /\ events' = Log(prediction_tasks[idx], "raise")
    /\ args' = EmptyMap
    /\ IF EscalatesNotReady(forecasts)
       THEN pc' = "not_ready" /\ idx' = idx       \* raise ConfigEntryNotReady
       ELSE pc' = "predicting" /\ idx' = idx + 1  \* logged, next task
    /\ UNCHANGED <<now, ticks, model_mtime, forecasts, last_run, executed_forecasts,
                   data, sensors, carried>>
    /\ UNCHANGED <<train_failures, meteo_records, train_rows, battVars, gridVars, seriesVars, horizonVars>>

\* line 212: return executed_forecasts; the host stores it as coordinator.data
\* and every sensor's _handle_coordinator_update runs _handle_update
TickReturn ==
    /\ pc = "predicting"
    /\ idx > Len(prediction_tasks)
    /\ data' = executed_forecasts
    /\ sensors' = [s \in SensorIds |-> _handle_update(sensors[s], s, executed_forecasts, now)]
    /\ pc' = "returned"
    /\ UNCHANGED <<now, ticks, model_mtime, forecasts, last_run, executed_forecasts,
                   idx, inflight, args, events, carried>>
    /\ UNCHANGED <<train_failures, meteo_records, train_rows, battVars, gridVars, seriesVars, horizonVars>>

\* lines 87-101: after ConfigEntryNotReady the host may set the entry up
\* again, which constructs a new coordinator
SetupRetry ==
    /\ pc = "not_ready"
    /\ forecasts' = EmptyMap
    /\ last_run' = EmptyMap
    /\ executed_forecasts' = EmptyMap
    /\ data' = EmptyMap
    /\ sensors' = [s \in SensorIds |-> None]
    /\ pc' = "constructed"
    /\ idx' = 0
    /\ UNCHANGED <<now, ticks, model_mtime, inflight, args, events, carried>>
    /\ UNCHANGED <<train_failures, meteo_records, train_rows, battVars, gridVars, seriesVars, horizonVars>>

CoordNext ==
    \/ TickStart
    \/ TrainSkip
    \/ TrainDispatch
    \/ TrainReturn
    \/ TrainRaise
    \/ TrainDone
    \/ PredictSkip
    \/ PredictDispatch
    \/ PredictReturn
    \/ PredictRaise
    \/ TickReturn
    \/ SetupRetry

\* ======================================================================
\* Part 2: forecast_battery.forecast_battery_capacity
\* ======================================================================
HOURS_PER_DAY == 24
\* timedelta(hours=1) in minutes
ONE_HOUR == 1 * 60

\* inputs of a run: the states of the battery entities and the two series
Capacities == {0, 5, 50, 100}
\* config.get(CONF_BATT_MAX_POWER, 3000): the configured maximum power (W);
\* the simulation never reads it, so one value stands for all
MaxPowers == {100}
\* now of a run: exactly on the hour, or half an hour later
BattNows == {0, 30}
MaxEnergies == {200}
SocSettings == {<<25, 75>>, <<50, 50>>, <<75, 25>>}
\* average solar power of an hour (W), None when the hour has no entry
SolarLookups == {None, Some(0), Some(150)}
\* consumption of an hour (W), None when the hour has no entry
ConsumptionLookups ==
    {None, Some([min |-> 0, med |-> 0, max |-> 0]),
     Some([min |-> 50, med |-> 100, max |-> 250])}

Scenarios == {"min", "med", "max"}

Max2(a, b) == IF a >= b THEN a ELSE b
Min2(a, b) == IF a <= b THEN a ELSE b

\* lines 53-55: current_capacity / 100.0 * max_energy
EnergyOfCapacity_no_percent(cap, maxE) == cap * maxE

EnergyOfCapacity(cap, maxE) == (cap * maxE) \div 100

\* lines 159-161: new_energy / max_energy * 100.0
CapacityOfEnergy(e, maxE) == (e * 100) \div maxE

\* lines 143-145: the consumption channel each battery scenario is paired with
PairedConsumption_straight(s) == s

PairedConsumption(s) ==
    CASE s = "min" -> "max"
      [] s = "med" -> "med"
      [] s = "max" -> "min"

net_energy_consumption_added(solar, cons, s) == solar + cons[PairedConsumption(s)]

net_energy(solar, cons, s) == solar - cons[PairedConsumption(s)]

\* lines 134-136: solar_hourly.get(sim_time, 0.0)
solar_hourly_get_absent_is_full(entry) == IF entry = None THEN 150 ELSE Val(entry)

solar_hourly_get(entry) == IF entry = None THEN 0 ELSE Val(entry)

\* line 139: cons_by_hour.get(sim_time, {"min": 0.0, "med": 0.0, "max": 0.0})
cons_by_hour_get(entry) ==
    IF entry = None THEN [min |-> 0, med |-> 0, max |-> 0] ELSE Val(entry)

\* lines 113-119: the current hour when now is exactly on the hour, else the
\* next full hour
start_sim_always_next(t) == (t - (t % ONE_HOUR)) + ONE_HOUR

start_sim_of(t) ==
    LET current_hour == t - (t % ONE_HOUR)
    IN IF t = current_hour THEN current_hour ELSE current_hour + ONE_HOUR

\* lines 148-156: max(batt_min_energy, min(batt_max_energy, current + net))
new_energy_upper_only(cur, net, lo, hi) == Min2(hi, cur + net)

new_energy(cur, net, lo, hi) == Max2(lo, Min2(hi, cur + net))

\* lines 45-130: read the configuration and the measured capacity, build the
\* head point, position the simulation at start_sim
BattStart ==
    /\ b_pc = "idle"
    /\ \E d \in 0..MaxDays, cap \in Capacities, maxE \in MaxEnergies,
          soc \in SocSettings, pw \in MaxPowers, t \in BattNows :
          /\ days' = d
          /\ current_capacity' = cap
          /\ max_energy' = maxE
          /\ min_soc' = soc[1]
          /\ max_soc' = soc[2]
          /\ pv_batt_max_power' = pw
          /\ batt_min_energy' = (maxE * soc[1]) \div 100
          /\ batt_max_energy' = (maxE * soc[2]) \div 100
          /\ current_energy' = [s \in Scenarios |-> EnergyOfCapacity(cap, maxE)]
          /\ b_now' = t
          /\ start_sim' = start_sim_of(t)
          /\ results_head' = Some([time |-> t, min |-> cap, med |-> cap, max |-> cap])
          /\ results_last' = Some([time |-> t, min |-> cap, med |-> cap, max |-> cap])
    /\ results_len' = 1
    /\ sim_step' = 0
    /\ b_pc' = "sim"
    /\ UNCHANGED <<solar_power, consumption, solar_entry, cons_entry, no_load,
                   cons_ordered>>
    /\ UNCHANGED <<coordVars, gridVars, seriesVars, horizonVars>>

\* lines 132-179: one pass of the while loop
BattStep ==
    /\ b_pc = "sim"
    /\ sim_step < days * HOURS_PER_DAY
    /\ \E sl \in SolarLookups, cl \in ConsumptionLookups :
          LET solar == solar_hourly_get(sl)
              cons == cons_by_hour_get(cl)
              new == [s \in Scenarios |->
                        new_energy(current_energy[s], net_energy(solar, cons, s),
                                   batt_min_energy, batt_max_energy)]
              sim_time == start_sim + sim_step * ONE_HOUR
          IN /\ solar_entry' = sl
             /\ cons_entry' = cl
             /\ solar_power' = solar
             /\ consumption' = cons
             /\ results_last' = Some([time |-> sim_time,
                                      min |-> CapacityOfEnergy(new["min"], max_energy),
                                      med |-> CapacityOfEnergy(new["med"], max_energy),
                                      max |-> CapacityOfEnergy(new["max"], max_energy)])
             /\ current_energy' = new
             /\ no_load' = (no_load /\ solar = 0
                                    /\ \A s \in Scenarios : cons[s] = 0)
             /\ cons_ordered' = (cons_ordered /\ cons["min"] <= cons["med"]
                                              /\ cons["med"] <= cons["max"])
    /\ results_len' = results_len + 1
    /\ sim_step' = sim_step + 1
    /\ UNCHANGED <<b_pc, days, current_capacity, max_energy, min_soc, max_soc,
                   batt_min_energy, batt_max_energy, results_head,
                   pv_batt_max_power, b_now, start_sim>>
    /\ UNCHANGED <<coordVars, gridVars, seriesVars, horizonVars>>

\* lines 132, 181: sim_time reached end_sim; return forecast_results
BattReturn ==
    /\ b_pc = "sim"
    /\ sim_step >= days * HOURS_PER_DAY
    /\ b_pc' = "done"
    /\ UNCHANGED <<days, current_capacity, max_energy, min_soc, max_soc,
                   batt_min_energy, batt_max_energy, current_energy, sim_step,
                   solar_power, consumption, results_len, results_head, results_last,
                   pv_batt_max_power, b_now, start_sim, solar_entry, cons_entry,
                   no_load, cons_ordered>>
    /\ UNCHANGED <<coordVars, gridVars, seriesVars, horizonVars>>

\* ======================================================================
\* Part 3: forecast_grid.forecast_grid
\* ======================================================================
\* inputs of a run: the states of the two SOC entities (None when the state
\* cannot be read as a number) and, per hour, what the three series hold
ThresholdStates ==
    {<<None, None>>, <<Some(10), Some(90)>>, <<Some(50), Some(50)>>}
GridNows == {0, 30}
GridSolarEntries == {None, Some(100), Some(300), Some(500)}
GridConsEntries ==
    {None, Some([min |-> 100, med |-> 200, max |-> 500]),
     Some([min |-> 300, med |-> 300, max |-> 300]),
     Some([min |-> 200, med |-> 500, max |-> 600])}
GridBattEntries ==
    {None, Some([min |-> 5, med |-> 50, max |-> 100]),
     Some([min |-> 5, med |-> 5, max |-> 5]),
     Some([min |-> 100, med |-> 100, max |-> 100])}

\* lines 116-120: the min threshold, 10.0 when the entity cannot be read
read_min_threshold(st) == IF st = None THEN 10 ELSE Val(st)

\* lines 121-125: the max threshold, 90.0 when the entity cannot be read
read_max_threshold(st) == IF st = None THEN 90 ELSE Val(st)

\* line 143: solar_hourly.get(sim_time, 0.0)
grid_solar_get(entry) == IF entry = None THEN 0 ELSE Val(entry)

\* line 145: cons_by_hour.get(sim_time, {"min": 0.0, "med": 0.0, "max": 0.0})
grid_cons_get(entry) ==
    IF entry = None THEN [min |-> 0, med |-> 0, max |-> 0] ELSE Val(entry)

\* line 147: batt_by_hour.get(sim_time, {"min": None, "med": None, "max": None})
grid_batt_get_absent_is_empty(entry) ==
    IF entry = None THEN [min |-> Some(0), med |-> Some(0), max |-> Some(0)]
    ELSE [ch \in Scenarios |-> Some(Val(entry)[ch])]

grid_batt_get(entry) ==
    IF entry = None THEN [min |-> None, med |-> None, max |-> None]
    ELSE [ch \in Scenarios |-> Some(Val(entry)[ch])]

\* lines 152, 160, 168: the battery channel whose presence guards a scenario
GuardBattery(s) == s

\* lines 153-156, 161-164, 169-172: the consumption channel a grid scenario
\* is computed from
GridConsumption(s) == s

\* lines 153-156, 161-164, 169-172: the battery channel a grid scenario reads
GridBattery(s) ==
    CASE s = "min" -> "max"
      [] s = "med" -> "med"
      [] s = "max" -> "min"

\* lines 153-156: export when there is a surplus and the battery is at or
\* above the max threshold, import (as a positive magnitude) when there is a
\* deficit and the battery is at or below the min threshold
grid_exchange_signed(solar, cons, batt, lo, hi) ==
    IF solar > cons /\ batt >= hi THEN solar - cons
    ELSE IF solar < cons /\ batt <= lo THEN solar - cons
    ELSE 0

grid_exchange(solar, cons, batt, lo, hi) ==
    IF solar > cons /\ batt >= hi THEN solar - cons
    ELSE IF solar < cons /\ batt <= lo THEN cons - solar
    ELSE 0

\* lines 151-172: the value of one scenario
grid_value(s, solar, cons, batt, lo, hi) ==
    IF batt[GuardBattery(s)] = None THEN 0
    ELSE grid_exchange(solar, cons[GridConsumption(s)],
                       Val(batt[GridBattery(s)]), lo, hi)

\* lines 45-140: read the thresholds, position the simulation at start_sim
GridStart ==
    /\ g_pc = "idle"
    /\ \E d \in 0..MaxDays, th \in ThresholdStates, t \in GridNows :
          /\ g_days' = d
          /\ batt_min_threshold' = read_min_threshold(th[1])
          /\ batt_max_threshold' = read_max_threshold(th[2])
          /\ g_now' = t
          /\ g_start_sim' = start_sim_of(t)
    /\ g_step' = 0
    /\ grid_len' = 0
    /\ g_pc' = "sim"
    /\ UNCHANGED <<g_solar_entry, g_cons_entry, g_batt_entry, grid_last>>
    /\ UNCHANGED <<coordVars, battVars, seriesVars, horizonVars>>

\* lines 141-183: one pass of the while loop
GridStep ==
    /\ g_pc = "sim"
    /\ g_step < g_days * HOURS_PER_DAY
    /\ \E sl \in GridSolarEntries, cl \in GridConsEntries, bl \in GridBattEntries :
          LET solar == grid_solar_get(sl)
              cons == grid_cons_get(cl)
              batt == grid_batt_get(bl)
              val(s) == grid_value(s, solar, cons, batt,
                                   batt_min_threshold, batt_max_threshold)
          IN /\ g_solar_entry' = sl
             /\ g_cons_entry' = cl
             /\ g_batt_entry' = bl
             /\ grid_last' = Some([time |-> g_start_sim + g_step * ONE_HOUR,
                                    min |-> val("min"),
                                    med |-> val("med"),
                                    max |-> val("max")])
    /\ grid_len' = grid_len + 1
    /\ g_step' = g_step + 1
    /\ UNCHANGED <<g_pc, g_days, g_now, g_start_sim, batt_min_threshold,
                   batt_max_threshold>>
    /\ UNCHANGED <<coordVars, battVars, seriesVars, horizonVars>>

\* lines 141, 185: sim_time reached end_sim; return grid_forecast
GridReturn ==
    /\ g_pc = "sim"
    /\ g_step >= g_days * HOURS_PER_DAY
    /\ g_pc' = "done"
    /\ UNCHANGED <<g_days, g_now, g_start_sim, g_step, batt_min_threshold,
                   batt_max_threshold, g_solar_entry, g_cons_entry,
                   g_batt_entry, grid_len, grid_last>>
    /\ UNCHANGED <<coordVars, battVars, seriesVars, horizonVars>>

\* ======================================================================
\* Part 4: forecast_data.ForecastData
\* ======================================================================
\* a point carries a time (minutes) and the channels min, med, max; a channel
\* the point does not carry is None
PointTimes == {0, 15, 60, 70, 125}
PointValues ==
    {[min |-> None, med |-> Some(0), max |-> None],
     [min |-> Some(1), med |-> Some(2), max |-> Some(4)]}
Points ==
    {[time |-> t, min |-> v.min, med |-> v.med, max |-> v.max] :
        t \in PointTimes, v \in PointValues}

\* the series the producers build: ascending by time, at most MaxPoints points
SortedSeries ==
    UNION {{f \in [1..n -> Points] :
                \A i \in 1..(n - 1) : f[i].time <= f[i + 1].time} :
           n \in 0..MaxPoints}

LookupNows == {0, 60, 130}
AggregationFns == {"sum", "average", "median"}
Intervals == {60, 120}
PostProcessFns == {None, Some("twice")}

\* line 53: last_past_point[self.value_field_med] if last_past_point else None
nearest_value_if_med_truthy(lpp) ==
    IF lpp # None /\ Val(lpp).med # Some(0) THEN Val(lpp).med ELSE None

nearest_value(lpp) == IF lpp # None THEN Val(lpp).med ELSE None

\* lines 44-46
NearestStart ==
    /\ s_pc = "idle"
    /\ \E fc \in SortedSeries, t \in LookupNows :
          /\ forecast' = fc
          /\ s_now' = t
    /\ n_idx' = 1
    /\ last_past_point' = None
    /\ s_pc' = "nearest"
    /\ UNCHANGED <<nearest_result, aggregation_fn, post_process_fn, interval,
                   a_idx, interval_start, current_interval, points_in_interval,
                   current_members, result, agg_returned>>
    /\ UNCHANGED <<s_state, coordVars, battVars, gridVars, horizonVars>>

\* lines 47-51: a point that is not after now
NearestStep ==
    /\ s_pc = "nearest"
    /\ n_idx <= Len(forecast)
    /\ ~ (forecast[n_idx].time > s_now)
    /\ last_past_point' = Some(forecast[n_idx])
    /\ n_idx' = n_idx + 1
    /\ UNCHANGED <<s_pc, forecast, s_now, nearest_result, aggregation_fn,
                   post_process_fn, interval, a_idx, interval_start,
                   current_interval, points_in_interval, current_members,
                   result, agg_returned>>
    /\ UNCHANGED <<s_state, coordVars, battVars, gridVars, horizonVars>>

\* lines 47-53: the loop ends or breaks at a point after now; return
NearestReturn ==
    /\ s_pc = "nearest"
    /\ IF n_idx > Len(forecast) THEN TRUE ELSE forecast[n_idx].time > s_now
    /\ nearest_result' = nearest_value(last_past_point)
    /\ s_pc' = "nearest_done"
    /\ UNCHANGED <<forecast, s_now, n_idx, last_past_point, aggregation_fn,
                   post_process_fn, interval, a_idx, interval_start,
                   current_interval, points_in_interval, current_members,
                   result, agg_returned>>
    /\ UNCHANGED <<s_state, coordVars, battVars, gridVars, horizonVars>>

\* sensor.py lines 113, 127, 141, 155: round(x) of the number num / den,
\* halves go to the even neighbour
round(num, den) ==
    LET q == num \div den
        r == num % den
    IN IF 2 * r < den THEN q
       ELSE IF 2 * r > den THEN q + 1
       ELSE IF q % 2 = 0 THEN q ELSE q + 1

\* sensor.py lines 112-115 (and 126-129, 140-143, 154-157): the state a
\* current-value sensor derives from a value the lookup returned
state_from_nearest(nearest) == Some(round(Val(nearest), 1))

\* forecast_sensor_base.py lines 69-76 with sensor.py lines 112-115: the
\* sensor of the kind takes its state from the series a tick returned; when
\* the lookup returned None, round(None) raises and _state is not assigned
SensorUpdate ==
    /\ s_pc = "nearest_done"
    /\ IF nearest_result = None
       THEN s_pc' = "sensor_raised" /\ UNCHANGED s_state
       ELSE s_pc' = "sensor_done" /\ s_state' = state_from_nearest(nearest_result)
    /\ UNCHANGED <<forecast, s_now, n_idx, last_past_point, nearest_result,
                   aggregation_fn, post_process_fn, interval, a_idx,
                   interval_start, current_interval, points_in_interval,
                   current_members, result, agg_returned>>
    /\ UNCHANGED <<coordVars, battVars, gridVars, horizonVars>>

\* lines 75-79: what the call does before the loop
agg_entry_empty_first(fn, fc) ==
    IF fc = <<>> THEN "empty"
    ELSE IF fn \notin {"sum", "average"} THEN "raise"
    ELSE "loop"

agg_entry(fn, fc) ==
    IF fn \notin {"sum", "average"} THEN "raise"
    ELSE IF fc = <<>> THEN "empty"
    ELSE "loop"

\* line 95: point_time - interval_start < interval
in_current_interval_inclusive(t, start, iv) == t - start <= iv

in_current_interval(t, start, iv) == t - start < iv

\* lines 96-103: add the channels the point carries to the sums
add_point(sums, pt) ==
    [ch \in Scenarios |->
        IF pt[ch] = None THEN sums[ch]
        ELSE Some((IF sums[ch] = None THEN 0 ELSE Val(sums[ch])) + Val(pt[ch]))]

\* lines 138-146: the sums of an interval that starts with the point
start_interval_zeroed(pt) ==
    [ch \in Scenarios |-> IF pt[ch] = None THEN None ELSE Some(0)]

start_interval(pt) == [ch \in Scenarios |-> pt[ch]]

\* lines 107-110: local noon of the day the middle of the interval falls on
interval_mid(start, iv) ==
    LET mid == start + (iv \div 2)
    IN (mid \div (HOURS_PER_DAY * ONE_HOUR)) * (HOURS_PER_DAY * ONE_HOUR)
           + 12 * ONE_HOUR

\* lines 123-130: a value is kept as the fraction num / den
aggregated_value(sum, n, fn, post) ==
    LET value == IF fn = "average" THEN [num |-> sum, den |-> n]
                 ELSE [num |-> sum, den |-> 1]
    IN IF post = None THEN value ELSE [value EXCEPT !.num = 2 * @]

\* lines 112-132: the aggregated point of an interval; start and members
\* record where the interval began and which points it collected
aggregated(start, sums, n, members, fn, post, iv) ==
    [time |-> interval_mid(start, iv),
     min |-> IF sums["min"] = None THEN None
             ELSE Some(aggregated_value(Val(sums["min"]), n, fn, post)),
     med |-> IF sums["med"] = None THEN None
             ELSE Some(aggregated_value(Val(sums["med"]), n, fn, post)),
     max |-> IF sums["max"] = None THEN None
             ELSE Some(aggregated_value(Val(sums["max"]), n, fn, post)),
     start |-> start,
     members |-> members]

\* lines 75-87: check the arguments, return at once for an empty series
AggStart ==
    /\ s_pc = "idle"
    /\ \E fc \in SortedSeries, fn \in AggregationFns, iv \in Intervals,
          post \in PostProcessFns :
          /\ forecast' = fc
          /\ aggregation_fn' = fn
          /\ interval' = iv
          /\ post_process_fn' = post
          /\ s_pc' = CASE agg_entry(fn, fc) = "raise" -> "agg_raised"
                       [] agg_entry(fn, fc) = "empty" -> "agg_done"
                       [] agg_entry(fn, fc) = "loop" -> "agg"
          /\ agg_returned' = IF agg_entry(fn, fc) = "empty" THEN Some(<<>>)
                             ELSE None
    /\ result' = <<>>
    /\ current_interval' = NoSums
    /\ interval_start' = None
    /\ points_in_interval' = 0
    /\ current_members' = {}
    /\ a_idx' = 1
    /\ UNCHANGED <<s_now, n_idx, last_past_point, nearest_result>>
    /\ UNCHANGED <<s_state, coordVars, battVars, gridVars, horizonVars>>

\* lines 89-147: one pass of the loop
AggPoint ==
    /\ s_pc = "agg"
    /\ a_idx <= Len(forecast)
    /\ LET pt == forecast[a_idx]
           start == IF interval_start = None THEN pt.time ELSE Val(interval_start)
       IN IF in_current_interval(pt.time, start, interval)
          THEN /\ interval_start' = Some(start)
               /\ current_interval' = add_point(current_interval, pt)
               /\ points_in_interval' = points_in_interval + 1
               /\ current_members' = current_members \cup {a_idx}
               /\ UNCHANGED result
          ELSE /\ result' = Append(result,
                                   aggregated(start, current_interval,
                                              points_in_interval, current_members,
                                              aggregation_fn, post_process_fn,
                                              interval))
               /\ interval_start' = Some(pt.time)
               /\ current_interval' = start_interval(pt)
               /\ points_in_interval' = 1
               /\ current_members' = {a_idx}
    /\ a_idx' = a_idx + 1
    /\ UNCHANGED <<s_pc, forecast, s_now, n_idx, last_past_point, nearest_result,
                   aggregation_fn, post_process_fn, interval, agg_returned>>
    /\ UNCHANGED <<s_state, coordVars, battVars, gridVars, horizonVars>>

\* lines 149-175: the last interval, then return
AggFinish ==
    /\ s_pc = "agg"
    /\ a_idx > Len(forecast)
    /\ LET final ==
               IF current_interval # NoSums /\ points_in_interval > 0
               THEN Append(result,
                           aggregated(Val(interval_start), current_interval,
                                      points_in_interval, current_members,
                                      aggregation_fn, post_process_fn, interval))
               ELSE result
       IN /\ result' = final
          /\ agg_returned' = Some(final)
    /\ s_pc' = "agg_done"
    /\ UNCHANGED <<forecast, s_now, n_idx, last_past_point, nearest_result,
                   aggregation_fn, post_process_fn, interval, a_idx,
                   interval_start, current_interval, points_in_interval,
                   current_members>>
    /\ UNCHANGED <<s_state, coordVars, battVars, gridVars, horizonVars>>

\* ======================================================================
\* Part 5: prediction window, consumption timestamps, simulated hours
\* ======================================================================
\* forecast_coordinator.py lines 24-25
PREDICT_DAYS_FORWARD == 7
PREDICT_DAYS_BACK == 0

\* timedelta(seconds=1), timedelta(hours=1), timedelta(days=1) in seconds
ONE_SECOND == 1 * 1
HOUR_SECONDS == 60 * 60
DAY_SECONDS == 24 * HOUR_SECONDS

\* now of a run, in seconds after today's midnight: midnight itself, 00:30,
\* 10:30, 12:00 and 23:59
NowTimes == {0, 30 * 60, 10 * HOUR_SECONDS + 30 * 60, 12 * HOUR_SECONDS,
             23 * HOUR_SECONDS + 59 * 60}

\* now.replace(hour=0, minute=0, second=0, microsecond=0), and
\* datetime.combine(current_date, datetime.min.time(), tzinfo=tz), which
\* keeps the date of a datetime and drops its time
midnight_of(t) == t - (t % DAY_SECONDS)

\* forecast_coordinator._get_prediction_window
_get_prediction_window(t, days_back, days_forward) ==
    LET from == midnight_of(t) - days_back * DAY_SECONDS + ONE_SECOND
        to == from + days_forward * DAY_SECONDS - ONE_SECOND
    IN <<from, to>>

\* lines 142-147 of generate_predictions: the 24 timestamps of one day
day_timestamps(current) ==
    {midnight_of(current) + hour * HOUR_SECONDS : hour \in 0..23}

\* the simulations' start: the current hour when now is on the hour, the
\* next full hour otherwise
start_sim_seconds(t) ==
    LET current_hour == t - (t % HOUR_SECONDS)
    IN IF t = current_hour THEN current_hour ELSE current_hour + HOUR_SECONDS

\* the coordinator makes the window of the consumption task for now and
\* generate_predictions starts its timestamp loop at from_date
HorizonStart ==
    /\ h_pc = "idle"
    /\ \E t \in NowTimes :
          LET window == _get_prediction_window(t, PREDICT_DAYS_BACK,
                                               PREDICT_DAYS_FORWARD)
          IN /\ h_now' = t
             /\ prediction_from' = window[1]
             /\ prediction_to' = window[2]
             /\ current_date' = window[1]
    /\ timestamps' = {}
    /\ h_pc' = "predict"
    /\ UNCHANGED <<h_start_sim, h_end_sim, h_sim_time, defaulted>>
    /\ UNCHANGED <<coordVars, battVars, gridVars, seriesVars>>

\* one pass of `while current_date <= to_date`
PredictDay ==
    /\ h_pc = "predict"
    /\ current_date <= prediction_to
    /\ timestamps' = timestamps \cup day_timestamps(current_date)
    /\ current_date' = current_date + DAY_SECONDS
    /\ UNCHANGED <<h_pc, h_now, prediction_from, prediction_to, h_start_sim,
                   h_end_sim, h_sim_time, defaulted>>
    /\ UNCHANGED <<coordVars, battVars, gridVars, seriesVars>>

\* the loop ends and the series is stored
PredictDone ==
    /\ h_pc = "predict"
    /\ ~ (current_date <= prediction_to)
    /\ h_pc' = "predicted"
    /\ UNCHANGED <<h_now, prediction_from, prediction_to, current_date,
                   timestamps, h_start_sim, h_end_sim, h_sim_time, defaulted>>
    /\ UNCHANGED <<coordVars, battVars, gridVars, seriesVars>>

\* forecast_battery.py lines 110-120, forecast_grid.py lines 127-136: the
\* simulation of the same tick, with days = PREDICT_DAYS_FORWARD
SimStart ==
    /\ h_pc = "predicted"
    /\ h_start_sim' = start_sim_seconds(h_now)
    /\ h_end_sim' = start_sim_seconds(h_now)
                        + PREDICT_DAYS_FORWARD * 24 * HOUR_SECONDS
    /\ h_sim_time' = start_sim_seconds(h_now)
    /\ h_pc' = "simulate"
    /\ UNCHANGED <<h_now, prediction_from, prediction_to, current_date,
                   timestamps, defaulted>>
    /\ UNCHANGED <<coordVars, battVars, gridVars, seriesVars>>

\* one pass of `while sim_time < end_sim`: cons_by_hour.get(sim_time,
\* {"min": 0.0, "med": 0.0, "max": 0.0})
SimHour ==
    /\ h_pc = "simulate"
    /\ h_sim_time < h_end_sim
    /\ defaulted' = IF h_sim_time \in timestamps
                    THEN defaulted
                    ELSE defaulted \cup {h_sim_time}
    /\ h_sim_time' = h_sim_time + HOUR_SECONDS
    /\ UNCHANGED <<h_pc, h_now, prediction_from, prediction_to, current_date,
                   timestamps, h_start_sim, h_end_sim>>
    /\ UNCHANGED <<coordVars, battVars, gridVars, seriesVars>>

SimReturn ==
    /\ h_pc = "simulate"
    /\ ~ (h_sim_time < h_end_sim)
    /\ h_pc' = "done"
    /\ UNCHANGED <<h_now, prediction_from, prediction_to, current_date,
                   timestamps, h_start_sim, h_end_sim, h_sim_time, defaulted>>
    /\ UNCHANGED <<coordVars, battVars, gridVars, seriesVars>>

\* the coordinator at rest while a simulation run is examined on its own
CoordIdle ==
    /\ now = 0
    /\ ticks = 0
    /\ model_mtime = [t \in TrainingNames |-> None]
    /\ forecasts = EmptyMap
    /\ last_run = EmptyMap
    /\ executed_forecasts = EmptyMap
    /\ pc = "constructed"
    /\ idx = 0
    /\ inflight = {}
    /\ args = EmptyMap
    /\ data = EmptyMap
    /\ sensors = [s \in SensorIds |-> None]
    /\ events = <<>>
    /\ carried = {}
    /\ train_failures = 0
    /\ meteo_records = "none"
    /\ train_rows = None

vars == <<coordVars, battVars, gridVars, seriesVars, horizonVars>>

Init == CoordInit /\ BattIdle /\ GridIdle /\ SeriesIdle /\ HorizonIdle

Next == CoordNext

Spec == Init /\ [][Next]_vars

InitBattery == CoordIdle /\ BattIdle /\ GridIdle /\ SeriesIdle /\ HorizonIdle

NextBattery ==
    \/ BattStart
    \/ BattStep
    \/ BattReturn

SpecBattery == InitBattery /\ [][NextBattery]_vars

\* the executor job runs the simulation to its end: a run that can take a
\* step or return does so
SpecBatteryFair == SpecBattery /\ WF_vars(NextBattery)

InitGrid == CoordIdle /\ BattIdle /\ GridIdle /\ SeriesIdle /\ HorizonIdle

NextGrid ==
    \/ GridStart
    \/ GridStep
    \/ GridReturn

SpecGrid == InitGrid /\ [][NextGrid]_vars

InitSeries == CoordIdle /\ BattIdle /\ GridIdle /\ SeriesIdle /\ HorizonIdle

NextSeries ==
    \/ NearestStart
    \/ NearestStep
    \/ NearestReturn
    \/ SensorUpdate
    \/ AggStart
    \/ AggPoint
    \/ AggFinish

SpecSeries == InitSeries /\ [][NextSeries]_vars

InitHorizon == CoordIdle /\ BattIdle /\ GridIdle /\ SeriesIdle /\ HorizonIdle

NextHorizon ==
    \/ HorizonStart
    \/ PredictDay
    \/ PredictDone
    \/ SimStart
    \/ SimHour
    \/ SimReturn

SpecHorizon == InitHorizon /\ [][NextHorizon]_vars

\* ======================================================================
\* Properties
\* ======================================================================
HasEvent(log, task, what) == \E i \in 1..Len(log) : log[i] = <<task, what>>

Dispatches(log, task) ==
    Cardinality({i \in 1..Len(log) : log[i] = <<task, "dispatch">>})

\* the step appended <<key, "raise">> to the log: a prediction stage failed
RaiseStep(key) ==
    /\ Len(events') = Len(events) + 1
    /\ events'[Len(events')] = <<key, "raise">>

LastEvent == events[Len(events)]

AllKindsStored == \A k \in ForecastKeys : last_run[k] # None

\* position of a step in the fixed order of a tick
Rank(task) ==
    CASE task = SOLAR_TRAINING -> 1
      [] task = CONSUMPTION_TRAINING -> 2
      [] task = FORECAST_DATA_PV_POWER -> 3
      [] task = FORECAST_DATA_POWER_CONSUMPTION -> 4
      [] task = FORECAST_DATA_BATTERY -> 5
      [] task = FORECAST_DATA_GRID -> 6

TickOver == pc \in {"returned", "not_ready"}

\* C1: when a prediction stage raises, the stored series of every kind and
\* every stage's last_run are exactly what they were before the attempt.
C1_FailureKeepsStoredState ==
    [][\A k \in ForecastKeys :
          RaiseStep(k) => (forecasts' = forecasts /\ last_run' = last_run)]_vars

\* a stage failed while an older series of its kind was stored, and that
\* series and its last_run are still the ones of the earlier run
C1_Witness ==
    /\ Len(events) > 0
    /\ AllKindsStored
    /\ \E k \in ForecastKeys :
          /\ LastEvent = <<k, "raise">>
          /\ forecasts[k] # None
          /\ Val(forecasts[k]).points[1] < now
          /\ Val(last_run[k]) < now

\* C2: a prediction stage that fails while some kind has never produced a
\* result makes the tick end with ConfigEntryNotReady (on the first tick in
\* particular).
C2_BootstrapFailureEscalates ==
    [][\A k \in ForecastKeys :
          (RaiseStep(k) /\ ~ AllKindsStored) => pc' = "not_ready"]_vars

\* first tick: solar, consumption and battery succeeded, grid failed, and
\* the tick signalled not ready
C2_Witness ==
    /\ ticks = 1
    /\ pc = "not_ready"
    /\ HasEvent(events, FORECAST_DATA_PV_POWER, "ok")
    /\ HasEvent(events, FORECAST_DATA_POWER_CONSUMPTION, "ok")
    /\ HasEvent(events, FORECAST_DATA_BATTERY, "ok")
    /\ LastEvent = <<FORECAST_DATA_GRID, "raise">>

\* C3: once all four kinds have produced a result, no step ends a tick with
\* ConfigEntryNotReady; a failing stage is skipped and its series stays.
C3_SteadyStateNeverEscalates ==
    [][AllKindsStored =>
          /\ pc' # "not_ready"
          /\ \A k \in ForecastKeys :
                RaiseStep(k) => (pc' = "predicting" /\ forecasts'[k] = forecasts[k])]_vars

\* a tick returned normally although two of its stages failed
C3_Witness ==
    /\ pc = "returned"
    /\ HasEvent(events, FORECAST_DATA_PV_POWER, "raise")
    /\ HasEvent(events, FORECAST_DATA_GRID, "raise")
    /\ Val(forecasts[FORECAST_DATA_GRID]).points[1] < now

\* C4: within a tick the steps are dispatched in the fixed order solar
\* training, consumption training, solar, consumption, battery, grid, each at
\* most once.
C4_FixedOrder ==
    LET IsDispatch(e) == e[2] = "dispatch"
        dispatched == SelectSeq(events, IsDispatch)
    IN \A i \in 1..(Len(dispatched) - 1) :
          Rank(dispatched[i][1]) < Rank(dispatched[i + 1][1])

\* a tick in which all six steps were dispatched
C4_Witness ==
    /\ pc = "returned"
    /\ \A t \in TrainingNames \cup ForecastKeys : Dispatches(events, t) = 1

\* C5: the battery stage is never in flight without a solar and a consumption
\* series, and the grid stage never without a battery series.
C5_UpstreamPresent ==
    /\ FORECAST_DATA_BATTERY \in inflight =>
          /\ args[FORECAST_DATA_PV_POWER] # None
          /\ args[FORECAST_DATA_POWER_CONSUMPTION] # None
    /\ FORECAST_DATA_GRID \in inflight =>
          /\ args[FORECAST_DATA_BATTERY] # None
          /\ args[FORECAST_DATA_PV_POWER] # None
          /\ args[FORECAST_DATA_POWER_CONSUMPTION] # None

\* the battery stage runs after solar failed in the same tick, on the solar
\* series of an earlier tick
C5_Witness ==
    /\ FORECAST_DATA_BATTERY \in inflight
    /\ HasEvent(events, FORECAST_DATA_PV_POWER, "raise")
    /\ args[FORECAST_DATA_PV_POWER] # None
    /\ Val(args[FORECAST_DATA_PV_POWER]).points[1] < now

\* a stage later in the order than a failed one was left out of the tick
\* only if it was not due
LaterDueStagesAttempted ==
    \A k, j \in ForecastKeys :
        (HasEvent(events, k, "raise") /\ Rank(k) < Rank(j) /\ Dispatches(events, j) = 0)
            => ~ needs_update(last_run, j, now)

\* C6 as claimed: in every tick, every due stage after a failed one is
\* still attempted.
C6_Original == TickOver => LaterDueStagesAttempted

\* C6 amended: in a tick that fails a stage while all four kinds are stored
\* the later due stages are all attempted; a tick ends with not ready only
\* while fewer than four kinds are stored, at the failing stage.
C6_SteadyStateFailureDoesNotAbort ==
    /\ pc = "returned" => LaterDueStagesAttempted
    /\ pc = "not_ready" =>
          /\ Cardinality(Keys(forecasts)) < Len(prediction_tasks)
          /\ LastEvent[2] = "raise"

\* solar failed and battery and grid were attempted in the same tick
C6_Witness ==
    /\ pc = "returned"
    /\ HasEvent(events, FORECAST_DATA_PV_POWER, "raise")
    /\ Dispatches(events, FORECAST_DATA_BATTERY) = 1
    /\ Dispatches(events, FORECAST_DATA_GRID) = 1

\* C7 as claimed: a stage whose latest attempt in an earlier tick failed is
\* attempted exactly once in every later tick.
C7_Original ==
    TickOver => \A k \in carried : Dispatches(events, k) = 1

\* C7 amended: no stage is attempted twice in a tick; a stage whose latest
\* attempt failed stays due until it succeeds; it is attempted exactly once
\* in every later tick that returns normally.
C7_FailedStageRetriedNextTick ==
    /\ \A k \in ForecastKeys : Dispatches(events, k) <= 1
    /\ \A k \in carried :
          (pc \notin {"constructed"} /\ ~ HasEvent(events, k, "ok"))
              => needs_update(last_run, k, now)
    /\ pc = "returned" => \A k \in carried : Dispatches(events, k) = 1

\* solar failed in an earlier tick and fails again, one minute later, in a
\* tick that returns normally
C7_Witness ==
    /\ pc = "returned"
    /\ FORECAST_DATA_PV_POWER \in carried
    /\ HasEvent(events, FORECAST_DATA_PV_POWER, "raise")
    /\ Dispatches(events, FORECAST_DATA_PV_POWER) = 1
    /\ Val(last_run[FORECAST_DATA_PV_POWER]) + SLOW_UPDATE_INTERVAL < now

\* the series is the result of one run: every point carries the same run
Whole(o) == o = None \/ Val(o) = ForecastData(Val(o).key, Val(o).points[1])

\* C8: at most one step is in flight, a step is dispatched only after the
\* previous one returned or raised, and every series a reader can get hold of
\* is the complete result of one run.
C8_SequentialAndAtomic ==
    /\ Cardinality(inflight) <= 1
    /\ \A i \in 1..Len(events) :
          (events[i][2] = "dispatch" /\ i > 1) => events[i - 1][2] \in {"ok", "raise"}
    /\ \A k \in ForecastKeys :
          Whole(forecasts[k]) /\ Whole(data[k]) /\ Whole(args[k])
    /\ \A s \in SensorIds : sensors[s] = None \/ Whole(Some(Val(sensors[s]).forecast))

\* while the grid stage is in flight the solar series published by the
\* last tick has been replaced by the one of this tick
C8_Witness ==
    /\ inflight = {FORECAST_DATA_GRID}
    /\ data[FORECAST_DATA_PV_POWER] # None
    /\ forecasts[FORECAST_DATA_PV_POWER] # data[FORECAST_DATA_PV_POWER]
    /\ Val(forecasts[FORECAST_DATA_PV_POWER]).points[SeriesLen] = now

\* C9: a sensor changes only in the step that returns a tick, and only if
\* the stage of its kind succeeded in that tick.
C9_SensorKeepsStaleState ==
    [][\A s \in SensorIds :
          sensors'[s] # sensors[s] =>
              /\ pc' = "returned"
              /\ HasEvent(events, _get_forecast_data_key(s), "ok")]_vars

\* after a tick in which grid failed and solar was not due, the grid and
\* solar sensors show what they showed before, the battery sensor is new
C9_Witness ==
    /\ pc = "returned"
    /\ HasEvent(events, FORECAST_DATA_GRID, "raise")
    /\ Dispatches(events, FORECAST_DATA_PV_POWER) = 0
    /\ sensors["pv_grid_power_forecast"] # None
    /\ Val(sensors["pv_grid_power_forecast"]).at < now
    /\ Val(sensors["pv_solar_panels_power_forecast"]).at < now
    /\ Val(sensors["pv_battery_capacity_forecast"]).at = now

\* C10: with min SOC <= max SOC, after every hourly step the carried energy
\* of each scenario lies in [batt_min_energy, batt_max_energy].
C10_EnergyWithinBounds ==
    (b_pc # "idle" /\ sim_step >= 1 /\ min_soc <= max_soc) =>
        \A s \in Scenarios :
            /\ batt_min_energy <= current_energy[s]
            /\ current_energy[s] <= batt_max_energy

\* a run that started below the min-SOC bound, was lifted to it by the
\* clamp and later filled to the max-SOC bound in one scenario
C10_Witness ==
    /\ b_pc = "sim"
    /\ sim_step >= 2
    /\ min_soc < max_soc
    /\ EnergyOfCapacity(current_capacity, max_energy) < batt_min_energy
    /\ current_energy["min"] = batt_min_energy
    /\ current_energy["max"] = batt_max_energy

\* the three channels of a forecast_results entry all carry the value c
AllChannels(point, c) == \A ch \in Scenarios : Val(point)[ch] = c

C12_ChargeCappedAtMaxPower ==
    [][BattStep =>
        \A s \in Scenarios :
            LET net == net_energy(solar_power', consumption', s)
            IN IF net > 0 /\ current_energy[s] < batt_max_energy
               THEN current_energy'[s] - current_energy[s] <= pv_batt_max_power
               ELSE current_energy'[s] =
                        Max2(batt_min_energy,
                             Min2(batt_max_energy, current_energy[s] + net))]_vars

\* the energy a channel carries after a step that started from prev with
\* the given solar and consumption values
Advanced(prev, solar, cons) ==
    Max2(batt_min_energy, Min2(batt_max_energy, prev + (solar - cons)))

\* C13: every hourly step advances battery-min with solar - consumption.max,
\* battery-med with solar - consumption.med and battery-max with solar -
\* consumption.min; an hour absent from the consumption series counts 0 for
\* all three channels, an hour absent from the solar series counts solar 0.
C13_CrossPairedWithConsumption ==
    [][BattStep =>
        /\ solar_power' = (IF solar_entry' = None THEN 0 ELSE Val(solar_entry'))
        /\ IF cons_entry' = None
           THEN \A ch \in Scenarios : consumption'[ch] = 0
           ELSE consumption' = Val(cons_entry')
        /\ current_energy'["min"] =
               Advanced(current_energy["min"], solar_power', consumption'["max"])
        /\ current_energy'["med"] =
               Advanced(current_energy["med"], solar_power', consumption'["med"])
        /\ current_energy'["max"] =
               Advanced(current_energy["max"], solar_power', consumption'["min"])]_vars

\* an hour absent from the solar series with three different consumption
\* values has driven the three channels apart
C13_Witness ==
    /\ b_pc = "sim"
    /\ sim_step >= 1
    /\ solar_entry = None
    /\ cons_entry # None
    /\ consumption["min"] < consumption["med"]
    /\ consumption["med"] < consumption["max"]
    /\ current_energy["min"] < current_energy["med"]
    /\ current_energy["med"] < current_energy["max"]

\* C14: a run with days = D takes exactly D * 24 hourly steps and returns
\* D * 24 + 1 points: the head point carries the measured capacity in all
\* three channels, and the k-th hourly point is stamped k - 1 hours after the
\* first simulated hour, which is the next full hour after now, or the
\* current hour when now is exactly on the hour.
HorizonAndHeadPoint ==
    b_pc # "idle" =>
        /\ sim_step <= days * 24
        /\ results_len = sim_step + 1
        /\ (b_pc = "done" => /\ sim_step = days * 24
                             /\ results_len = days * 24 + 1)
        /\ AllChannels(results_head, current_capacity)
        /\ start_sim % ONE_HOUR = 0
        /\ b_now <= start_sim
        /\ start_sim < b_now + ONE_HOUR
        /\ (results_len >= 2 =>
               Val(results_last).time = start_sim + (results_len - 2) * ONE_HOUR)

C14_TerminatesWithHorizonAndHeadPoint ==
    /\ []HorizonAndHeadPoint
    /\ (b_pc = "sim") ~> (b_pc = "done")

\* a one-day run started half past the hour has returned its 25 points, the
\* last one stamped 23 hours after the next full hour
C14_Witness ==
    /\ b_pc = "done"
    /\ days = 1
    /\ b_now % ONE_HOUR # 0
    /\ start_sim = b_now - (b_now % ONE_HOUR) + ONE_HOUR
    /\ results_len = 25
    /\ Val(results_last).time = start_sim + 23 * ONE_HOUR
    /\ ~ AllChannels(results_last, current_capacity)

\* the solar and consumption values of the hour the grid run handled last
HourSolar == IF g_solar_entry = None THEN 0 ELSE Val(g_solar_entry)

HourConsumption(ch) == IF g_cons_entry = None THEN 0 ELSE Val(g_cons_entry)[ch]

GridStepped == g_pc # "idle" /\ grid_len >= 1

\* C15: for an hour that has a battery reading, each scenario's exchange is
\* solar - consumption when solar > consumption and the battery reading is
\* >= the max threshold, consumption - solar (a positive magnitude) when
\* consumption > solar and the battery reading is <= the min threshold, and
\* 0 in every other case; consumption and battery reading are the channels
\* the scenario is computed from.
C15_GridExchangeRule ==
    (GridStepped /\ g_batt_entry # None) =>
        \A s \in Scenarios :
            LET c == HourConsumption(GridConsumption(s))
                b == Val(g_batt_entry)[GridBattery(s)]
                g == Val(grid_last)[s]
                export == HourSolar > c /\ b >= batt_max_threshold
                import == c > HourSolar /\ b <= batt_min_threshold
            IN /\ export => g = HourSolar - c
               /\ import => g = c - HourSolar
               /\ (~ export /\ ~ import) => g = 0

\* solar 100, consumption 500, battery 5 with a min threshold of 10: the med
\* scenario imports 400
C15_Witness ==
    /\ GridStepped
    /\ g_solar_entry = Some(100)
    /\ g_cons_entry # None
    /\ HourConsumption("med") = 500
    /\ g_batt_entry # None
    /\ Val(g_batt_entry)["med"] = 5
    /\ batt_min_threshold = 10
    /\ Val(grid_last)["med"] = 400

\* C16 as stated: grid-min is computed from consumption-max and the
\* battery-max reading, grid-med from consumption-med and battery-med,
\* grid-max from consumption-min and the battery-min reading.
C16_GridPairing ==
    (GridStepped /\ g_batt_entry # None) =>
        LET rule(c, b) == grid_exchange(HourSolar, HourConsumption(c),
                                        Val(g_batt_entry)[b],
                                        batt_min_threshold, batt_max_threshold)
        IN /\ Val(grid_last)["min"] = rule("max", "max")
           /\ Val(grid_last)["med"] = rule("med", "med")
           /\ Val(grid_last)["max"] = rule("min", "min")

\* C17 as stated: an hour for which at least one of the three series has no
\* entry gets exchange 0 in all three scenarios.
C17_Original ==
    (GridStepped /\ (g_solar_entry = None \/ g_cons_entry = None
                                          \/ g_batt_entry = None)) =>
        \A s \in Scenarios : Val(grid_last)[s] = 0

\* C17 amended: an hour without a battery entry gets exchange 0 in all three
\* scenarios; an hour without a solar entry is computed with solar 0 (the
\* exchange is 0 or the whole consumption), an hour without a consumption
\* entry with consumption 0 (the exchange is 0 or the whole solar power).
C17_MissingBatteryHourIsZero ==
    GridStepped =>
        /\ g_batt_entry = None => \A s \in Scenarios : Val(grid_last)[s] = 0
        /\ g_solar_entry = None =>
               \A s \in Scenarios :
                   Val(grid_last)[s] \in {0, HourConsumption(GridConsumption(s))}
        /\ g_cons_entry = None =>
               \A s \in Scenarios : Val(grid_last)[s] \in {0, HourSolar}

\* an hour with a surplus and no battery entry
C17_Witness ==
    /\ GridStepped
    /\ g_batt_entry = None
    /\ g_solar_entry = Some(500)
    /\ g_cons_entry # None
    /\ HourConsumption("max") < 500
    /\ \A s \in Scenarios : Val(grid_last)[s] = 0

\* C18: on a series sorted ascending by time the lookup returns the med
\* value of the last point whose time is <= now, a med value of 0 included,
\* and None exactly when no point has time <= now; the loop never reads
\* past the end of the series.
C18_NearestAtOrBefore ==
    /\ s_pc = "nearest" => n_idx \in 1..(Len(forecast) + 1)
    /\ s_pc = "nearest_done" =>
          LET past == {i \in 1..Len(forecast) : forecast[i].time <= s_now}
              last == CHOOSE i \in past : \A j \in past : j <= i
          IN IF past = {} THEN nearest_result = None
             ELSE /\ nearest_result # None
                  /\ nearest_result = forecast[last].med

\* the last point at or before now carries med 0, an earlier point carries
\* another value and a later point lies after now
C18_Witness ==
    /\ s_pc = "nearest_done"
    /\ nearest_result = Some(0)
    /\ \E i \in 1..Len(forecast) : forecast[i].time > s_now
    /\ \E i \in 1..Len(forecast) :
          forecast[i].time <= s_now /\ forecast[i].med # Some(0)

AggCalled == s_pc \in {"agg", "agg_done", "agg_raised"}

\* C19: called with a function other than "sum" and "average" the call
\* raises, for the empty series too, and neither returns nor builds a
\* result; called with a recognized function on the empty series it returns
\* the empty list.
C19_UnknownFunctionRaises ==
    /\ (AggCalled /\ aggregation_fn \notin {"sum", "average"}) =>
          /\ s_pc = "agg_raised"
          /\ agg_returned = None
          /\ result = <<>>
    /\ (AggCalled /\ aggregation_fn \in {"sum", "average"} /\ forecast = <<>>) =>
          /\ s_pc = "agg_done"
          /\ agg_returned = Some(<<>>)
    /\ s_pc = "agg_raised" => aggregation_fn \notin {"sum", "average"}

\* an unrecognized function on the empty series
C19_Witness ==
    /\ s_pc = "agg_raised"
    /\ aggregation_fn = "median"
    /\ forecast = <<>>

\* the indices of the points with time in [lo, hi)
PointsWithin(lo, hi) ==
    {i \in 1..Len(forecast) : lo <= forecast[i].time /\ forecast[i].time < hi}

\* every point is in exactly one emitted bucket, the last point as well
EveryPointInOneBucket(r) ==
    /\ \A i \in 1..Len(forecast) :
          Cardinality({j \in 1..Len(r) : i \in r[j].members}) = 1
    /\ Len(forecast) \in r[Len(r)].members

AggReturnedFor == s_pc = "agg_done" /\ forecast # <<>>

\* C20 as stated: every emitted bucket holds exactly the points of one of
\* the windows [t0 + k*I, t0 + (k+1)*I) anchored at the first timestamp t0,
\* every point is in exactly one bucket and the trailing bucket is emitted.
C20_Original ==
    AggReturnedFor =>
        LET r == Val(agg_returned)
            t0 == forecast[1].time
            tn == forecast[Len(forecast)].time
        IN /\ EveryPointInOneBucket(r)
           /\ \A j \in 1..Len(r) :
                 \E k \in 0..((tn - t0) \div interval) :
                     r[j].members = PointsWithin(t0 + k * interval,
                                                 t0 + (k + 1) * interval)

\* C20 amended: the first bucket starts at t0 and every later bucket starts
\* at the first point that lies I or more after the start of the bucket
\* before it; a bucket holds exactly the consecutive points from its first
\* point on whose time is less than I after that start; every point is in
\* exactly one bucket and the trailing bucket is emitted.
C20_BucketsAnchoredAtTheirFirstPoint ==
    AggReturnedFor =>
        LET r == Val(agg_returned)
            n == Len(forecast)
            first(j) == CHOOSE i \in r[j].members : \A h \in r[j].members : i <= h
            final(j) == CHOOSE i \in r[j].members : \A h \in r[j].members : h <= i
        IN /\ EveryPointInOneBucket(r)
           /\ 1 \in r[1].members
           /\ \A j \in 1..Len(r) :
                 /\ r[j].members # {}
                 /\ r[j].members = first(j)..final(j)
                 /\ r[j].start = forecast[first(j)].time
                 /\ \A i \in r[j].members :
                       forecast[i].time - r[j].start < interval
                 /\ final(j) < n =>
                       /\ forecast[final(j) + 1].time - r[j].start >= interval
                       /\ first(j + 1) = final(j) + 1

\* points at 0, 70 and 125 minutes with an interval of 60: the second bucket
\* starts at 70 and holds the points at 70 and 125
C20_Witness ==
    /\ AggReturnedFor
    /\ interval = 60
    /\ Len(forecast) = 3
    /\ forecast[1].time = 0
    /\ forecast[2].time = 70
    /\ forecast[3].time = 125
    /\ Len(Val(agg_returned)) = 2
    /\ Val(agg_returned)[2].start = 70
    /\ Val(agg_returned)[2].members = {2, 3}

\* the points of a bucket that carry the channel, and the sum of their values
Carriers(members, ch) == {i \in members : forecast[i][ch] # None}

RECURSIVE SumOver(_, _)
SumOver(S, ch) ==
    IF S = {} THEN 0
    ELSE LET i == CHOOSE x \in S : TRUE
         IN Val(forecast[i][ch]) + SumOver(S \ {i}, ch)

\* the fraction v equals num / den
EqualsFraction(v, num, den) == v.num * den = num * v.den

\* C21 as stated: with "sum" every channel of every emitted bucket is the
\* sum, with "average" the arithmetic mean, of the values of the points of
\* the bucket that carry the channel.
C21_Original ==
    AggReturnedFor =>
        \A j \in 1..Len(Val(agg_returned)), ch \in Scenarios :
            LET b == Val(agg_returned)[j]
                c == Carriers(b.members, ch)
            IN c # {} =>
                  /\ b[ch] # None
                  /\ IF aggregation_fn = "sum"
                     THEN EqualsFraction(Val(b[ch]), SumOver(c, ch), 1)
                     ELSE EqualsFraction(Val(b[ch]), SumOver(c, ch), Cardinality(c))

\* C21 amended: an emitted bucket has a channel exactly when one of its
\* points carries it; without a post-processing function the value is, with
\* "sum", the sum of the channel over the points that carry it and, with
\* "average", that sum divided by the number of all points of the bucket
\* (the arithmetic mean when every point of the bucket carries the channel);
\* with a post-processing function the emitted value is the function applied
\* to that value.
C21_BucketValueIsSumOrSumOverPointCount ==
    AggReturnedFor =>
        \A j \in 1..Len(Val(agg_returned)), ch \in Scenarios :
            LET b == Val(agg_returned)[j]
                c == Carriers(b.members, ch)
                n == IF aggregation_fn = "sum" THEN 1 ELSE Cardinality(b.members)
            IN /\ b[ch] # None <=> c # {}
               /\ c # {} =>
                     IF post_process_fn = None
                     THEN EqualsFraction(Val(b[ch]), SumOver(c, ch), n)
                     ELSE EqualsFraction(Val(b[ch]), 2 * SumOver(c, ch), n)
               /\ (c = b.members /\ post_process_fn = None
                                 /\ aggregation_fn = "average") =>
                     EqualsFraction(Val(b[ch]), SumOver(c, ch), Cardinality(c))

\* an average without post-processing over two buckets: the first holds one
\* point, the trailing one two points of which only one carries min, so that
\* its med is the mean 2 / 2 and its min is 1 / 2
C21_Witness ==
    /\ AggReturnedFor
    /\ aggregation_fn = "average"
    /\ post_process_fn = None
    /\ Len(Val(agg_returned)) = 2
    /\ Val(agg_returned)[2].members = {2, 3}
    /\ Carriers({2, 3}, "min") = {3}
    /\ Val(agg_returned)[2].med = Some([num |-> 2, den |-> 2])
    /\ Val(agg_returned)[2].min = Some([num |-> 1, den |-> 2])

\* the solar prediction in flight has no persisted model to load or got no
\* weather records
SolarCannotPredict ==
    /\ pc = "await_predict"
    /\ prediction_tasks[idx] = FORECAST_DATA_PV_POWER
    /\ (model_mtime[SOLAR_TRAINING] = None \/ meteo_records = "empty")

\* C22: a solar prediction without a persisted solar model or without
\* weather records ends by raising to the coordinator: the stored solar
\* series and the solar last_run stay what they were and the tick's result
\* gets no solar series; a tick in which the solar stage succeeded had both.
C22_SolarPredictionFailsWithoutModelOrWeather ==
    /\ [](HasEvent(events, FORECAST_DATA_PV_POWER, "ok") =>
             (meteo_records = "records" /\ model_mtime[SOLAR_TRAINING] # None))
    /\ [][SolarCannotPredict =>
             /\ RaiseStep(FORECAST_DATA_PV_POWER)
             /\ pc' \in {"predicting", "not_ready"}
             /\ forecasts' = forecasts
             /\ last_run' = last_run
             /\ executed_forecasts' = executed_forecasts
             /\ executed_forecasts'[FORECAST_DATA_PV_POWER] = None]_vars

\* the weather source returned no records in a tick in which the solar stage
\* was due again: the stage raised, the solar series of the earlier tick is
\* still stored with its last_run, and the tick goes on
C22_Witness ==
    /\ pc = "predicting"
    /\ Len(events) > 0
    /\ LastEvent = <<FORECAST_DATA_PV_POWER, "raise">>
    /\ meteo_records = "empty"
    /\ model_mtime[SOLAR_TRAINING] # None
    /\ forecasts[FORECAST_DATA_PV_POWER] # None
    /\ Val(forecasts[FORECAST_DATA_PV_POWER]).points[1] < now
    /\ Val(last_run[FORECAST_DATA_PV_POWER]) < now
    /\ executed_forecasts[FORECAST_DATA_PV_POWER] = None

\* no solar model was ever persisted (its training raised in this tick as
\* well): the solar stage raised on the first tick and nothing is stored
C22_WitnessNoModel ==
    /\ pc = "not_ready"
    /\ LastEvent = <<FORECAST_DATA_PV_POWER, "raise">>
    /\ HasEvent(events, SOLAR_TRAINING, "raise")
    /\ meteo_records = "records"
    /\ model_mtime[SOLAR_TRAINING] = None
    /\ forecasts[FORECAST_DATA_PV_POWER] = None
    /\ last_run[FORECAST_DATA_PV_POWER] = None

\* the stage is due at the tick's now: it never succeeded, or its update
\* interval (15 minutes for solar and consumption, 1 minute for battery and
\* grid) has elapsed since last_run
Due(k) ==
    \/ last_run[k] = None
    \/ now - Val(last_run[k]) >=
          (IF k \in {FORECAST_DATA_PV_POWER, FORECAST_DATA_POWER_CONSUMPTION}
           THEN 15 ELSE 1)

\* the step appended <<task, what>> to the log
LogStep(task, what) ==
    /\ Len(events') = Len(events) + 1
    /\ events'[Len(events')] = <<task, what>>

\* the step is one in the life of a coordinator, not the construction of a
\* new one
SameCoordinator == ~ (pc = "not_ready" /\ pc' = "constructed")

\* a success stamps last_run with the tick's now, at least one update
\* interval after the success before it; last_run changes in no other step
\* and never decreases
StampedBySuccessOnly ==
    \A k \in ForecastKeys :
        /\ LogStep(k, "ok") => (Due(k) /\ last_run'[k] = Some(now))
        /\ (SameCoordinator /\ ~ LogStep(k, "ok")) => last_run'[k] = last_run[k]
        /\ (SameCoordinator /\ last_run[k] # None) =>
               (last_run'[k] # None /\ Val(last_run'[k]) >= Val(last_run[k]))

\* a stage is executed in a tick only if it is due
ExecutedOnlyIfDue == \A k \in ForecastKeys : LogStep(k, "dispatch") => Due(k)

\* a stage that was not executed in the tick was not due
NotExecutedOnlyIfNotDue ==
    \A k \in ForecastKeys : Dispatches(events, k) = 0 => ~ Due(k)

\* C23 as stated: in every tick a stage is executed if and only if it is
\* due; last_run is the now of the tick of the last success, so that two
\* successes are at least one update interval apart and last_run never
\* decreases.
C23_Original ==
    /\ [](TickOver => NotExecutedOnlyIfNotDue)
    /\ [][ExecutedOnlyIfDue /\ StampedBySuccessOnly]_vars

\* C23 amended: a stage that the prediction loop reaches is executed if and
\* only if it is due; the loop reaches every stage of a tick that returns,
\* and a tick that ends with not ready leaves the stages after the failed
\* one unexecuted although they are due; within the life of one coordinator
\* last_run is the now of the tick of the last success, two successes are at
\* least one update interval apart and last_run never decreases.
C23_ReachedStageExecutedIffDue ==
    /\ [](pc = "returned" => NotExecutedOnlyIfNotDue)
    /\ [][/\ ExecutedOnlyIfDue
          /\ StampedBySuccessOnly
          /\ (pc = "predicting" /\ idx <= Len(prediction_tasks)) =>
                IF Due(prediction_tasks[idx])
                THEN LogStep(prediction_tasks[idx], "dispatch")
                ELSE events' = events /\ idx' = idx + 1]_vars

\* a tick one to fourteen minutes after the last solar and consumption
\* success: both were skipped, battery and grid ran again; solar had run a
\* second time exactly fifteen minutes after its first success
C23_Witness ==
    /\ pc = "returned"
    /\ ticks = 3
    /\ Dispatches(events, FORECAST_DATA_PV_POWER) = 0
    /\ Dispatches(events, FORECAST_DATA_POWER_CONSUMPTION) = 0
    /\ HasEvent(events, FORECAST_DATA_BATTERY, "ok")
    /\ HasEvent(events, FORECAST_DATA_GRID, "ok")
    /\ now - Val(last_run[FORECAST_DATA_PV_POWER]) = 1
    /\ Val(last_run[FORECAST_DATA_PV_POWER]) = 16
    /\ last_run[FORECAST_DATA_BATTERY] = Some(now)

\* the run (the now of the tick) that produced a series
RunOf(o) == Val(o).points[1]

\* C24: while the battery or the grid stage is in flight, each upstream
\* series it was handed is the one in the coordinator's map: the series of
\* this tick when the upstream stage succeeded in this tick, otherwise the
\* series of the upstream stage's last success in an earlier tick.
C24_UpstreamIsLatestStored ==
    \A k \in {FORECAST_DATA_BATTERY, FORECAST_DATA_GRID} :
        k \in inflight =>
            \A u \in ForecastKeys :
                IF u \in upstream(k)
                THEN /\ args[u] # None
                     /\ args[u] = forecasts[u]
                     /\ last_run[u] = Some(RunOf(args[u]))
                     /\ IF HasEvent(events, u, "ok")
                        THEN RunOf(args[u]) = now
                        ELSE RunOf(args[u]) < now
                ELSE args[u] = None

\* the grid stage is in flight in a tick in which solar failed and battery
\* succeeded: it holds the solar series of an earlier tick and the battery
\* series of this tick
C24_Witness ==
    /\ inflight = {FORECAST_DATA_GRID}
    /\ HasEvent(events, FORECAST_DATA_PV_POWER, "raise")
    /\ HasEvent(events, FORECAST_DATA_BATTERY, "ok")
    /\ RunOf(args[FORECAST_DATA_PV_POWER]) < now
    /\ RunOf(args[FORECAST_DATA_BATTERY]) = now
    /\ RunOf(args[FORECAST_DATA_POWER_CONSUMPTION]) < now

\* the model has no persisted file (and so no last-trained timestamp), or it
\* was last trained more than 24 hours before the tick's now
TrainingDue(t) ==
    \/ model_mtime[t] = None
    \/ now - Val(model_mtime[t]) > 24 * 60

TrainingRaised == \E t \in TrainingNames : HasEvent(events, t, "raise")

\* a training that raises is only logged: the model files are as before and
\* the tick goes on with the next training task; a training on fewer than
\* 10 rows raises
TrainingFailureIsContained ==
    /\ \A t \in TrainingNames :
          LogStep(t, "raise") =>
              /\ model_mtime' = model_mtime
              /\ pc' = "training"
              /\ idx' = idx + 1
    /\ (pc = "await_train" /\ Val(train_rows) < 10) =>
          LogStep(training_tasks[idx], "raise")

\* in a tick in which a training raised, the other training was run if it
\* was due
OtherTrainingAttempted ==
    (TrainingRaised /\ pc \notin {"training", "await_train"}) =>
        \A t \in TrainingNames : Dispatches(events, t) = 0 => ~ TrainingDue(t)

SucceededInTick == {k \in ForecastKeys : HasEvent(events, k, "ok")}

\* C27: in every state a stage's last_run is set if and only if its kind is
\* in the stored map, the stored map holds no more than the four kinds, the
\* map a tick builds holds exactly the kinds that succeeded in the tick so
\* far, each equal to the stored entry, and the map a tick returned is that
\* map.
C27_Bookkeeping ==
    /\ \A k \in ForecastKeys : last_run[k] # None <=> forecasts[k] # None
    /\ Keys(forecasts) \subseteq {prediction_tasks[i] : i \in 1..Len(prediction_tasks)}
    /\ Cardinality(Keys(forecasts)) <= Len(prediction_tasks)
    /\ pc \notin {"constructed"} =>
          /\ Keys(executed_forecasts) = SucceededInTick
          /\ \A k \in SucceededInTick :
                /\ executed_forecasts[k] = forecasts[k]
                /\ last_run[k] = Some(now)
    /\ pc = "returned" => data = executed_forecasts

\* a tick returned in which solar failed, consumption was not due, and
\* battery and grid succeeded: the returned map holds battery and grid only,
\* the stored map all four kinds
C27_Witness ==
    /\ pc = "returned"
    /\ HasEvent(events, FORECAST_DATA_PV_POWER, "raise")
    /\ Dispatches(events, FORECAST_DATA_POWER_CONSUMPTION) = 0
    /\ Keys(data) = {FORECAST_DATA_BATTERY, FORECAST_DATA_GRID}
    /\ Keys(forecasts) = ForecastKeys
    /\ data[FORECAST_DATA_GRID] = forecasts[FORECAST_DATA_GRID]
    /\ data[FORECAST_DATA_PV_POWER] # forecasts[FORECAST_DATA_PV_POWER]

\* the three channels of a point or of the carried energies are in order
Ordered(r) == r["min"] <= r["med"] /\ r["med"] <= r["max"]

\* C28: in a run whose consumption input had min <= med <= max at every
\* hour so far, the head point, the latest hourly point and the carried
\* energies have min <= med <= max.
C28_ScenariosStayOrdered ==
    (b_pc # "idle" /\ cons_ordered) =>
        /\ Ordered(Val(results_head))
        /\ Ordered(Val(results_last))
        /\ Ordered(current_energy)

\* after two hours or more the three capacities of the latest point differ,
\* in an hour with solar 150 and consumption 50 / 100 / 250
C28_Witness ==
    /\ b_pc = "sim"
    /\ sim_step >= 2
    /\ cons_ordered
    /\ solar_entry = Some(150)
    /\ cons_entry # None
    /\ consumption["min"] < consumption["max"]
    /\ Val(results_last)["min"] < Val(results_last)["med"]
    /\ Val(results_last)["med"] < Val(results_last)["max"]
    /\ min_soc < max_soc

\* C29 as stated: the update of a current-value sensor from a series
\* completes without raising and sets a state, for a series without a point
\* at or before now too.
C29_SensorUpdateNeverRaises ==
    /\ s_pc # "sensor_raised"
    /\ s_pc = "sensor_done" => s_state # None

\* the hours of the seven days the window covers: from today's midnight to
\* 23:00 of the sixth day after today
WindowHours ==
    {midnight_of(h_now) + k * HOUR_SECONDS : k \in 0..(PREDICT_DAYS_FORWARD * 24 - 1)}

\* the consumption series of a finished prediction has exactly these hours
ConsumptionCoversCalendarDays ==
    h_pc \in {"predicted", "simulate", "done"} => timestamps = WindowHours

\* C30: with 7 days forward and 0 days back, every hour the simulation steps
\* through has a point in the consumption series made for the same now, so
\* that no consumption lookup of the run falls back to the zero default,
\* whatever the time of day of now is
C30_NoSimulatedHourDefaults ==
    defaulted = {}

\* what the run does instead: the simulated hours after 23:00 of the sixth
\* day, as many as full hours lie between today's midnight and the start of
\* the simulation, have no consumption point
DefaultedTail ==
    h_pc = "done" =>
        /\ defaulted = {t \in {h_start_sim + k * HOUR_SECONDS :
                                  k \in 0..(PREDICT_DAYS_FORWARD * 24 - 1)} :
                          t >= midnight_of(h_now)
                                   + PREDICT_DAYS_FORWARD * DAY_SECONDS}
        /\ Cardinality(defaulted)
               = (h_start_sim - midnight_of(h_now)) \div HOUR_SECONDS

====
